---- MODULE Spec2Model ----
(***************************************************************************)
(* A model of rpaint: the action history engine (src/rpaint/src/app.rs),   *)
(* the stroke codec (src/rpaint/src/models.rs), the multicast transport    *)
(* and its receive worker (src/rpaint/src/network.rs) and the interactive  *)
(* handlers of PaintApp::update (src/rpaint/src/main.rs, the side of the   *)
(* file that uses app.rs).                                                 *)
(*                                                                         *)
(* Conventions.  Vec indices are 0-based as in the source; At(s, i) reads  *)
(* position i of a sequence.  Coordinates, widths and deltas are f32 in    *)
(* the source and small integers here: on integers of this size f32        *)
(* addition and subtraction are exact.  A u32 colour is kept as its four   *)
(* bytes, most significant first.  A Rust panic is the flag crashed.       *)
(***************************************************************************)
EXTENDS Integers, Sequences, FiniteSets, TLC

\* ------------------------------------------------------------------ bounds
MaxLines == 4
MaxHist == 3
MaxInbox == 2
MaxIll == 1
MaxCoord == 60
MaxAppLines == 2
MaxAppHist == 3
MaxPts == 1
MaxPasses == 12
MaxAppCoord == 20

\* ------------------------------------------------------ program constants
PasteOffset == 20
SelectThreshold == 10
RectMargin == 5

\* ------------------------------------------------------- sequence helpers
At(s, i) == s[i + 1]

\* Option<T>: None is the empty sequence, Some(x) the sequence of x alone
None == <<>>

Some(x) == <<x>>

Front(s) == SubSeq(s, 1, Len(s) - 1)

Last(s) == s[Len(s)]

Min(a, b) == IF a < b THEN a ELSE b

Max(a, b) == IF a > b THEN a ELSE b

\* Vec::remove(idx), idx < len
RemoveAt(s, idx) == SubSeq(s, 1, idx) \o SubSeq(s, idx + 2, Len(s))

\* Vec::insert(idx, x), idx <= len
InsertAt(s, idx, x) == SubSeq(s, 1, idx) \o <<x>> \o SubSeq(s, idx + 1, Len(s))

\* start..end as a Vec<usize>
RangeSeq(start, end) == [k \in 1..(end - start) |-> start + k - 1]

Contains(s, x) == \E k \in DOMAIN s : s[k] = x

RECURSIVE InsertDesc(_, _)
InsertDesc(sorted, x) ==
    IF sorted = <<>> THEN <<x>>
    ELSE IF Head(sorted) >= x THEN <<Head(sorted)>> \o InsertDesc(Tail(sorted), x)
    ELSE <<x>> \o sorted

\* sort_by(|a, b| b.cmp(a)): a stable descending sort
RECURSIVE SortDesc(_)
SortDesc(s) == IF s = <<>> THEN <<>> ELSE InsertDesc(SortDesc(Front(s)), Last(s))

RECURSIVE InsertByKey(_, _)
InsertByKey(sorted, p) ==
    IF sorted = <<>> THEN <<p>>
    ELSE IF Head(sorted)[1] <= p[1] THEN <<Head(sorted)>> \o InsertByKey(Tail(sorted), p)
    ELSE <<p>> \o sorted

\* sort_by_key(|(idx, _)| idx): a stable ascending sort of (index, stroke) pairs
RECURSIVE SortByKey(_)
SortByKey(s) == IF s = <<>> THEN <<>> ELSE InsertByKey(SortByKey(Front(s)), Last(s))

\* a.iter().zip(b.iter()): pairs up to the shorter length
Zip(a, b) == [k \in 1..Min(Len(a), Len(b)) |-> <<a[k], b[k]>>]

\* ------------------------------------------------------------------ codec
\* Color32::from_rgba_unmultiplied: the stored colour is premultiplied; alpha 255
\* keeps the channels, alpha 0 is TRANSPARENT, other alphas scale each channel
\* (linearly here, rounded to nearest).
from_rgba_unmultiplied(r, g, b, a) ==
    IF a = 255 THEN <<r, g, b, 255>>
    ELSE IF a = 0 THEN <<0, 0, 0, 0>>
    ELSE <<(r * a + 127) \div 255, (g * a + 127) \div 255, (b * a + 127) \div 255, a>>

\* Color32::to_srgba_unmultiplied: [r, g, b, a] with the premultiplication undone
to_srgba_unmultiplied(c) ==
    IF c[4] = 255 THEN c
    ELSE IF c[4] = 0 THEN <<0, 0, 0, 0>>
    ELSE <<Min(255, (c[1] * 255 + c[4] \div 2) \div c[4]),
           Min(255, (c[2] * 255 + c[4] \div 2) \div c[4]),
           Min(255, (c[3] * 255 + c[4] \div 2) \div c[4]), c[4]>>

\* a plausible slip: the channels packed in the order r, g, b, a
PackColor_redFirst(r, g, b, a) == <<r, g, b, a>>

\* (a << 24) | (r << 16) | (g << 8) | b, as the four bytes of the u32
PackColor(r, g, b, a) == <<a, r, g, b>>

\* (color >> shift) & 0xFF
ByteOf(color, shift) == color[4 - shift \div 8]

\* impl From<&Line> for SerializableLine
SerializableLineFrom(line) ==
    LET c == to_srgba_unmultiplied(line.color) IN
    [points |-> line.points,
     color |-> PackColor(c[1], c[2], c[3], c[4]),
     width |-> line.width]

\* impl From<&SerializableLine> for Line
LineFrom(sline) ==
    [points |-> sline.points,
     color |-> from_rgba_unmultiplied(ByteOf(sline.color, 16), ByteOf(sline.color, 8),
                                      ByteOf(sline.color, 0), ByteOf(sline.color, 24)),
     width |-> sline.width]

\* ---------------------------------------------------------------- actions
Create(new_lines) == [type |-> "Create", lines |-> new_lines]

Delete(indices, slines) == [type |-> "Delete", indices |-> indices, lines |-> slines]

Modify(indices, old_lines, new_lines) ==
    [type |-> "Modify", indices |-> indices, old |-> old_lines, new |-> new_lines]

Move(indices, dx, dy) == [type |-> "Move", indices |-> indices, dx |-> dx, dy |-> dy]

\* *p += Vec2::new(dx, dy) for every point of a stroke
Translate(line, dx, dy) ==
    [line EXCEPT !.points = [k \in DOMAIN line.points |->
                                <<line.points[k][1] + dx, line.points[k][2] + dy>>]]

\* The result of a step on the Store: the strokes, and whether it panicked.
Ok(ls) == [lines |-> ls, panic |-> FALSE]

Panic(ls) == [lines |-> ls, panic |-> TRUE]

RECURSIVE PushAll(_, _)
PushAll(ls, new_lines) ==
    IF new_lines = <<>> THEN ls
    ELSE PushAll(Append(ls, LineFrom(Head(new_lines))), Tail(new_lines))

RemoveGuarded(ls, idx) == IF idx < Len(ls) THEN RemoveAt(ls, idx) ELSE ls

RECURSIVE RemoveAll(_, _)
RemoveAll(ls, sorted) ==
    IF sorted = <<>> THEN ls
    ELSE RemoveAll(RemoveGuarded(ls, Head(sorted)), Tail(sorted))

\* a plausible slip: the indices removed in the order the action lists them
DeleteOrder_asGiven(indices) == indices

\* sorted.sort_by(|a, b| b.cmp(a))
DeleteOrder(indices) == SortDesc(indices)

\* a plausible slip: Modify indexes the Store directly instead of get_mut
RECURSIVE ReplaceAll_unguarded(_, _, _, _)
ReplaceAll_unguarded(ls, indices, repl, i) ==
    IF i > Len(indices) THEN Ok(ls)
    ELSE IF indices[i] >= Len(ls) \/ i > Len(repl) THEN Panic(ls)
         ELSE ReplaceAll_unguarded([ls EXCEPT ![indices[i] + 1] = LineFrom(repl[i])],
                                   indices, repl, i + 1)

\* new_lines[i] / old_lines[i] is an unchecked index: it panics past the end
RECURSIVE ReplaceAll(_, _, _, _)
ReplaceAll(ls, indices, repl, i) ==
    IF i > Len(indices) THEN Ok(ls)
    ELSE IF indices[i] < Len(ls)
         THEN IF i > Len(repl) THEN Panic(ls)
              ELSE ReplaceAll([ls EXCEPT ![indices[i] + 1] = LineFrom(repl[i])],
                              indices, repl, i + 1)
         ELSE ReplaceAll(ls, indices, repl, i + 1)

RECURSIVE MoveAll(_, _, _, _)
MoveAll(ls, indices, dx, dy) ==
    IF indices = <<>> THEN ls
    ELSE MoveAll(IF Head(indices) < Len(ls)
                 THEN [ls EXCEPT ![Head(indices) + 1] = Translate(@, dx, dy)]
                 ELSE ls,
                 Tail(indices), dx, dy)

\* PaintApp::apply_action
apply_action(ls, action) ==
    CASE action.type = "Create" -> Ok(PushAll(ls, action.lines))
      [] action.type = "Delete" -> Ok(RemoveAll(ls, DeleteOrder(action.indices)))
      [] action.type = "Modify" -> ReplaceAll(ls, action.indices, action.new, 1)
      [] action.type = "Move" -> Ok(MoveAll(ls, action.indices, action.dx, action.dy))

\* Vec::pop count times; a pop of an empty Vec does nothing
PopN(ls, count) == SubSeq(ls, 1, Max(0, Len(ls) - count))

\* a plausible slip: the cached strokes re-inserted in the order the action lists them
ReinsertOrder_unsorted(indices, slines) == Zip(indices, slines)

ReinsertOrder(indices, slines) == SortByKey(Zip(indices, slines))

\* Vec::insert panics when idx > len
RECURSIVE ReinsertAll(_, _)
ReinsertAll(ls, combined) ==
    IF combined = <<>> THEN Ok(ls)
    ELSE IF Head(combined)[1] > Len(ls) THEN Panic(ls)
    ELSE ReinsertAll(InsertAt(ls, Head(combined)[1], LineFrom(Head(combined)[2])),
                     Tail(combined))

\* a plausible slip: the inverse of Move translates by (dx, dy) again
invert_action_sameSign(ls, action) ==
    CASE action.type = "Create" -> Ok(PopN(ls, Len(action.lines)))
      [] action.type = "Delete" ->
            ReinsertAll(ls, ReinsertOrder(action.indices, action.lines))
      [] action.type = "Modify" -> ReplaceAll(ls, action.indices, action.old, 1)
      [] action.type = "Move" -> Ok(MoveAll(ls, action.indices, action.dx, action.dy))

\* the match of PaintApp::undo: the inverse of an action
invert_action(ls, action) ==
    CASE action.type = "Create" -> Ok(PopN(ls, Len(action.lines)))
      [] action.type = "Delete" ->
            ReinsertAll(ls, ReinsertOrder(action.indices, action.lines))
      [] action.type = "Modify" -> ReplaceAll(ls, action.indices, action.old, 1)
      [] action.type = "Move" -> Ok(MoveAll(ls, action.indices, 0 - action.dx, 0 - action.dy))

\* ------------------------------------------------------------------ state
VARIABLES
    \* PaintApp (app.rs:5-25)
    lines, undo_stack, redo_stack, mode, brush_color, brush_size, current_line,
    selected_indices, selection_start_pos, selection_rect, clipboard,
    is_dragging_items, drag_accumulated_delta,
    \* NetworkManager (network.rs:46-51) and the receive workers it has spawned
    connected, peer_count, sender, events, workers,
    \* where the interactive context is inside NetworkManager::disconnect: "idle"
    \* (not in it) or "disconnect" (the counter is reset, the socket not yet dropped)
    pc,
    \* the pointer gesture egui reports: "up" or "down"
    pointer,
    \* a panic has unwound the process
    crashed,
    \* observations of the run, read by the properties only
    op, prev_op, gU, gR, anchor, depth, n_ill, n_commit, n_send, result, n_pass,
    gesture,
    \* the argument and the result of a function of the program applied on its own
    arg, ret,
    \* every event the worker has enqueued and every event poll_events has
    \* returned, in order, as the steps of SpecInbox record them
    enqueued, returned

appVars == <<lines, undo_stack, redo_stack, selected_indices, clipboard>>

inputVars == <<mode, brush_color, brush_size, current_line, selection_start_pos,
               selection_rect, is_dragging_items, drag_accumulated_delta, pointer>>

fnVars == <<arg, ret>>

inboxObs == <<enqueued, returned>>

uiVars == <<inputVars, n_pass, gesture, fnVars, inboxObs>>

netVars == <<connected, peer_count, sender, events, workers, pc>>

engineObs == <<prev_op, gU, gR, anchor, depth, n_ill>>

sendObs == <<n_commit, n_send, result>>

vars == <<appVars, uiVars, netVars, crashed, op, engineObs, sendObs>>

\* The observation of a drag of selected strokes: none is in progress.
NoGesture ==
    [phase |-> "none", pre |-> <<>>, sel |-> <<>>, hist |-> <<>>, events |-> 0,
     clean |-> TRUE]

\* The fields a history operation reads and writes, as one value.
Core ==
    [lines |-> lines, undo_stack |-> undo_stack, redo_stack |-> redo_stack,
     selected_indices |-> selected_indices, clipboard |-> clipboard,
     panic |-> FALSE, commits |-> 0, sends |-> 0]

\* a plausible slip: execute without redo_stack.clear()
execute_keepsRedo(c, action) ==
    LET r == apply_action(c.lines, action) IN
    IF r.panic THEN [c EXCEPT !.panic = TRUE]
    ELSE [c EXCEPT !.lines = r.lines,
                   !.undo_stack = Append(@, action),
                   !.commits = @ + 1]

\* PaintApp::execute
execute(c, action) ==
    LET r == apply_action(c.lines, action) IN
    IF r.panic THEN [c EXCEPT !.panic = TRUE]
    ELSE [c EXCEPT !.lines = r.lines,
                   !.undo_stack = Append(@, action),
                   !.redo_stack = <<>>,
                   !.commits = @ + 1]

\* a plausible slip: undo takes the oldest entry instead of the most recent
undo_oldestFirst(c) ==
    IF c.undo_stack = <<>> THEN c
    ELSE LET action == Head(c.undo_stack)
             r == invert_action(c.lines, action)
         IN IF r.panic THEN [c EXCEPT !.panic = TRUE]
            ELSE [c EXCEPT !.lines = r.lines,
                           !.undo_stack = Tail(@),
                           !.redo_stack = Append(@, action),
                           !.selected_indices = <<>>]

\* a plausible slip: undo without selected_indices.clear()
undo_keepsSelection(c) ==
    IF c.undo_stack = <<>> THEN c
    ELSE LET action == Last(c.undo_stack)
             r == invert_action(c.lines, action)
         IN IF r.panic THEN [c EXCEPT !.panic = TRUE]
            ELSE [c EXCEPT !.lines = r.lines,
                           !.undo_stack = Front(@),
                           !.redo_stack = Append(@, action)]

\* PaintApp::undo
undo(c) ==
    IF c.undo_stack = <<>> THEN c
    ELSE LET action == Last(c.undo_stack)
             r == invert_action(c.lines, action)
         IN IF r.panic THEN [c EXCEPT !.panic = TRUE]
            ELSE [c EXCEPT !.lines = r.lines,
                           !.undo_stack = Front(@),
                           !.redo_stack = Append(@, action),
                           !.selected_indices = <<>>]

\* a plausible slip: redo re-applies the action without pushing it back
redo_notPushed(c) ==
    IF c.redo_stack = <<>> THEN c
    ELSE LET action == Last(c.redo_stack)
             r == apply_action(c.lines, action)
         IN IF r.panic THEN [c EXCEPT !.panic = TRUE]
            ELSE [c EXCEPT !.lines = r.lines,
                           !.redo_stack = Front(@)]

\* PaintApp::redo
redo(c) ==
    IF c.redo_stack = <<>> THEN c
    ELSE LET action == Last(c.redo_stack)
             r == apply_action(c.lines, action)
         IN IF r.panic THEN [c EXCEPT !.panic = TRUE]
            ELSE [c EXCEPT !.lines = r.lines,
                           !.redo_stack = Front(@),
                           !.undo_stack = Append(@, action)]

\* The state after a history operation: its fields, or the panic.
Store(c) ==
    /\ crashed' = c.panic
    /\ IF c.panic THEN UNCHANGED appVars
       ELSE /\ lines' = c.lines
            /\ undo_stack' = c.undo_stack
            /\ redo_stack' = c.redo_stack
            /\ selected_indices' = c.selected_indices
            /\ clipboard' = c.clipboard

\* PaintApp::default and NetworkManager::new
InitFields ==
    /\ lines = <<>> /\ undo_stack = <<>> /\ redo_stack = <<>>
    /\ mode = "Freehand"
    /\ brush_color = <<0, 150, 255, 255>>
    /\ brush_size = 4
    /\ current_line = <<>>
    /\ selected_indices = <<>>
    /\ selection_start_pos = None
    /\ selection_rect = None
    /\ clipboard = <<>>
    /\ is_dragging_items = FALSE
    /\ drag_accumulated_delta = <<0, 0>>
    /\ connected = FALSE /\ peer_count = 0 /\ sender = "None" /\ events = <<>>
    /\ workers = 0
    /\ pointer = "up"
    /\ crashed = FALSE
    /\ op = "init" /\ prev_op = "init"
    /\ gU = <<>> /\ gR = <<>> /\ anchor = "none" /\ depth = 0 /\ n_ill = 0
    /\ n_commit = 0 /\ n_send = 0 /\ result = "none" /\ n_pass = 0
    /\ gesture = NoGesture /\ pc = "idle"
    /\ enqueued = <<>> /\ returned = <<>>

\* No function is being applied on its own.
NoArg == [kind |-> "none"]

InitApp == InitFields /\ arg = NoArg /\ ret = NoArg

\* ------------------------------------------- the history engine, driven directly
\* Wire strokes the engine is driven with.
P1 == [points |-> <<<<0, 0>>, <<10, 0>>>>, color |-> PackColor(0, 150, 255, 255), width |-> 4]

P2 == [points |-> <<<<5, 3>>>>, color |-> PackColor(255, 0, 0, 128), width |-> 2]

P3 == [points |-> <<<<1, 1>>, <<2, 5>>>>, color |-> PackColor(9, 9, 9, 255), width |-> 6]

\* Index lists the engine is driven with: a single position, two positions in
\* descending and in ascending order, adjacent and not.  Each is in range on a
\* Store that is long enough and out of range on a shorter one.
DeleteIdx == {<<0>>, <<MaxLines - 1, 1>>, <<1, MaxLines - 1>>, <<1, 2>>, <<2, 0>>}

EditIdx == {<<0>>, <<MaxLines - 1, 1>>, <<1, 2>>}

\* The strokes a well-formed action caches for its indices (P1 for a position
\* the Store does not have).
CacheFor(ls, ix) ==
    [k \in DOMAIN ix |-> IF ix[k] < Len(ls) THEN SerializableLineFrom(At(ls, ix[k])) ELSE P1]

Widened(sline) == [sline EXCEPT !.width = @ + 1]

NewFor(ls, ix) == [k \in DOMAIN ix |-> Widened(CacheFor(ls, ix)[k])]

EngineActions(ls) ==
    {Create(<<P3>>), Create(<<P1, P2>>), Create(<<P3, P1>>)}
    \cup {Delete(ix, CacheFor(ls, ix)) : ix \in DeleteIdx}
    \cup {Modify(ix, CacheFor(ls, ix), NewFor(ls, ix)) : ix \in EditIdx}
    \cup {Move(ix, 20, 30) : ix \in EditIdx}

\* The model's bound on a Store: its length and its coordinates.
Bounded(ls) ==
    /\ Len(ls) <= MaxLines
    /\ \A k \in DOMAIN ls : \A j \in DOMAIN ls[k].points :
          /\ ls[k].points[j][1] \in (0 - MaxCoord)..MaxCoord
          /\ ls[k].points[j][2] \in (0 - MaxCoord)..MaxCoord

\* Distinct in-range indices; the caches are the Store's content by construction.
WellFormed(ls, action) ==
    IF action.type = "Create" THEN TRUE
    ELSE \A k \in DOMAIN action.indices : action.indices[k] < Len(ls)

EngineExecute(action) ==
    /\ ~crashed
    /\ Len(undo_stack) < MaxHist
    /\ n_ill' = IF WellFormed(lines, action) THEN n_ill ELSE n_ill + 1
    /\ LET c == execute(Core, action) IN
       /\ Bounded(c.lines)
       /\ Store(c)
       /\ op' = "execute" /\ prev_op' = op
       /\ gU' = IF c.panic THEN gU
                ELSE Append(gU, [pre |-> lines, post |-> c.lines,
                                 wf |-> WellFormed(lines, action)])
       /\ gR' = IF c.panic THEN gR ELSE <<>>
       /\ anchor' = "none" /\ depth' = 0
    /\ UNCHANGED <<uiVars, netVars, sendObs>>

EngineUndo ==
    /\ ~crashed
    /\ LET c == undo(Core) IN
       /\ Bounded(c.lines)
       /\ Store(c)
       /\ op' = IF undo_stack = <<>> THEN "undo_empty" ELSE "undo"
       /\ prev_op' = op
       /\ IF undo_stack = <<>> \/ c.panic
          THEN UNCHANGED <<gU, gR>> /\ anchor' = "none" /\ depth' = 0
          ELSE /\ gU' = Front(gU)
               /\ gR' = Append(gR, Last(gU))
               /\ IF op = "undo" /\ anchor # "none"
                  THEN anchor' = anchor /\ depth' = depth + 1
                  ELSE anchor' = <<lines, undo_stack, redo_stack>> /\ depth' = 1
    /\ UNCHANGED <<uiVars, netVars, sendObs, n_ill>>

EngineRedo ==
    /\ ~crashed
    /\ LET c == redo(Core) IN
       /\ Bounded(c.lines)
       /\ Store(c)
       /\ op' = IF redo_stack = <<>> THEN "redo_empty" ELSE "redo"
       /\ prev_op' = op
       /\ IF redo_stack = <<>> \/ c.panic
          THEN UNCHANGED <<gU, gR>> /\ anchor' = "none" /\ depth' = 0
          ELSE /\ gR' = Front(gR)
               /\ gU' = Append(gU, Last(gR))
               /\ IF op \in {"undo", "redo"} /\ anchor # "none" /\ depth > 0
                  THEN anchor' = anchor /\ depth' = depth - 1
                  ELSE anchor' = "none" /\ depth' = 0
    /\ UNCHANGED <<uiVars, netVars, sendObs, n_ill>>

\* The engine driven with well-formed actions only.
NextEngine ==
    \/ \E action \in {a \in EngineActions(lines) : WellFormed(lines, a)} :
          EngineExecute(action)
    \/ EngineUndo
    \/ EngineRedo

SpecEngine == InitApp /\ [][NextEngine]_vars

\* The engine driven with any action, at most MaxIll of them out of range.
NextEngineAny ==
    \/ \E action \in EngineActions(lines) :
          /\ WellFormed(lines, action) \/ n_ill < MaxIll
          /\ EngineExecute(action)
    \/ EngineUndo
    \/ EngineRedo

SpecEngineAny == InitApp /\ [][NextEngineAny]_vars

\* ------------------------------------------------------------ the transport
\* DrawingMessage values that travel on the group.
DrawLineMsg(sline) ==
    [type |-> "DrawLine", points |-> sline.points, color |-> sline.color,
     width |-> sline.width]

DeleteMsg(indices) == [type |-> "Delete", indices |-> indices]

Msgs == {DrawLineMsg(P1), DeleteMsg(<<0>>)}

\* NetworkEvent::MessageReceived
MessageReceived(msg) == [event |-> "MessageReceived", msg |-> msg]

\* a plausible slip: the receive port bound with address reuse allowed
ReceivePortFree_reuse == TRUE

\* UdpSocket::bind of the receive port: std sets no SO_REUSEADDR on a UDP socket,
\* and every worker keeps its receive socket for ever, so the port is free only
\* while no worker exists.
ReceivePortFree == workers = 0

\* a plausible slip: connect without the early return starts another worker
ConnectAgain_respawn ==
    /\ connected
    /\ workers' = workers + 1
    /\ UNCHANGED <<connected, peer_count, sender, events, pc>>

\* NetworkManager::connect, already connected: Ok(()) and nothing else
ConnectAgain ==
    /\ connected
    /\ UNCHANGED netVars

\* The steps of connect that can fail, in order, and the message of each.
ConnectSteps ==
    {"bind sender", "set nonblocking", "bind receiver", "join multicast",
     "set receiver nonblocking"}

ConnectError(step) ==
    CASE step = "bind sender" -> "Err: Failed to bind sender"
      [] step = "set nonblocking" -> "Err: Failed to set nonblocking"
      [] step = "bind receiver" -> "Err: Failed to bind receiver"
      [] step = "join multicast" -> "Err: Failed to join multicast"
      [] step = "set receiver nonblocking" -> "Err: Failed to set receiver nonblocking"

\* a plausible slip: the send socket is stored as soon as it is bound, before
\* the receive socket is set up
ConnectFail_senderKept(step) ==
    /\ ~connected
    /\ step \in ConnectSteps
    /\ sender' = IF step \in {"bind sender", "set nonblocking"} THEN sender ELSE "Some"
    /\ UNCHANGED <<connected, peer_count, events, workers, pc>>

\* NetworkManager::connect, one of the ? returns: the sockets made so far are
\* dropped and self is as before.  Binding the receive port fails for sure
\* while an earlier worker holds it.
ConnectFail(step) ==
    /\ ~connected
    /\ step \in ConnectSteps
    /\ UNCHANGED netVars

\* a plausible slip: connect sets connected and forgets to store the send socket
ConnectOk_noSender ==
    /\ ~connected
    /\ ReceivePortFree
    /\ connected' = TRUE
    /\ workers' = workers + 1
    /\ UNCHANGED <<sender, peer_count, events, pc>>

\* NetworkManager::connect, every step succeeding: the worker is spawned
ConnectOk ==
    /\ ~connected
    /\ ReceivePortFree
    /\ sender' = "Some"
    /\ connected' = TRUE
    /\ workers' = workers + 1
    /\ UNCHANGED <<peer_count, events, pc>>

\* NetworkManager::connect with the Result it returns
connect ==
    \/ ConnectAgain /\ result' = "Ok"
    \/ \E step \in ConnectSteps : ConnectFail(step) /\ result' = ConnectError(step)
    \/ ConnectOk /\ result' = "Ok"

\* NetworkManager::disconnect, run without a worker step in between
disconnect ==
    /\ connected' = FALSE
    /\ peer_count' = 0
    /\ sender' = "None"
    /\ UNCHANGED <<events, workers, pc>>

\* NetworkManager::disconnect up to the release of the peer_count lock
disconnect_reset ==
    /\ pc = "idle"
    /\ connected' = FALSE
    /\ peer_count' = 0
    /\ pc' = "disconnect"
    /\ UNCHANGED <<sender, events, workers>>

\* NetworkManager::disconnect from there to its return
disconnect_return ==
    /\ pc = "disconnect"
    /\ sender' = "None"
    /\ pc' = "idle"
    /\ UNCHANGED <<connected, peer_count, events, workers>>

\* a plausible slip: broadcast_message without the connected check
broadcast_result_unchecked(conn, snd, send_ok) ==
    IF snd = "Some"
    THEN IF send_ok THEN [result |-> "Ok", sent |-> 1]
         ELSE [result |-> "Err: Failed to send", sent |-> 0]
    ELSE [result |-> "Ok", sent |-> 0]

\* NetworkManager::broadcast_message: what it returns and the datagrams it emits;
\* send_ok is the outcome of UdpSocket::send_to
broadcast_result(conn, snd, send_ok) ==
    IF ~conn THEN [result |-> "Err: Not connected to network", sent |-> 0]
    ELSE IF snd = "Some"
         THEN IF send_ok THEN [result |-> "Ok", sent |-> 1]
              ELSE [result |-> "Err: Failed to send", sent |-> 0]
         ELSE [result |-> "Ok", sent |-> 0]

\* a plausible slip: poll_events returns a copy of the inbox and leaves it full
poll_events_copied == UNCHANGED events

\* NetworkManager::poll_events: the inbox is drained
poll_events == events' = <<>>

\* The receive worker, recv_from returning a datagram that decodes; elapsed says
\* whether more than a second has passed since last_peer_check.
WorkerReceive(msg, elapsed) ==
    /\ workers > 0
    /\ Len(events) < MaxInbox
    /\ events' = Append(events, MessageReceived(msg))
    /\ peer_count' = IF elapsed THEN 1 ELSE peer_count
    /\ UNCHANGED <<connected, sender, workers, pc>>

\* a plausible slip: the peer counter is updated for every datagram, decoded or not
WorkerIdle_counted(outcome) ==
    /\ workers > 0
    /\ outcome \in {"undecodable", "WouldBlock", "error"}
    /\ peer_count' = IF outcome = "undecodable" THEN 1 ELSE peer_count
    /\ UNCHANGED <<connected, sender, events, workers, pc>>

\* a plausible slip: the worker leaves its loop on an I/O error
WorkerIdle_exits(outcome) ==
    /\ workers > 0
    /\ outcome \in {"undecodable", "WouldBlock", "error"}
    /\ workers' = IF outcome = "error" THEN workers - 1 ELSE workers
    /\ UNCHANGED <<connected, peer_count, sender, events, pc>>

\* The receive worker: a datagram that does not decode, WouldBlock, or another
\* I/O error; it sleeps (or not) and loops.
WorkerIdle(outcome) ==
    /\ workers > 0
    /\ outcome \in {"undecodable", "WouldBlock", "error"}
    /\ UNCHANGED netVars

\* The transport driven through its API, with its worker.
NetConnect ==
    /\ pc = "idle"
    /\ connect
    /\ op' = "connect" /\ prev_op' = op
    /\ n_send' = 0
    /\ UNCHANGED <<appVars, uiVars, crashed, gU, gR, anchor, depth, n_ill, n_commit>>

NetDisconnectReset ==
    /\ disconnect_reset
    /\ op' = "disconnect_reset" /\ prev_op' = op
    /\ n_send' = 0 /\ result' = "none"
    /\ UNCHANGED <<appVars, uiVars, crashed, gU, gR, anchor, depth, n_ill, n_commit>>

NetDisconnect ==
    /\ disconnect_return
    /\ op' = "disconnect" /\ prev_op' = op
    /\ n_send' = 0 /\ result' = "none"
    /\ UNCHANGED <<appVars, uiVars, crashed, gU, gR, anchor, depth, n_ill, n_commit>>

NetBroadcast(msg, send_ok) ==
    /\ pc = "idle"
    /\ LET r == broadcast_result(connected, sender, send_ok) IN
       /\ result' = r.result
       /\ n_send' = r.sent
    /\ op' = "broadcast_message" /\ prev_op' = op
    /\ UNCHANGED <<appVars, uiVars, netVars, crashed, gU, gR, anchor, depth, n_ill, n_commit>>

NetPoll ==
    /\ pc = "idle"
    /\ poll_events
    /\ op' = "poll_events" /\ prev_op' = op
    /\ n_send' = 0 /\ result' = "none"
    /\ UNCHANGED <<connected, peer_count, sender, workers, pc>>
    /\ UNCHANGED <<appVars, uiVars, crashed, gU, gR, anchor, depth, n_ill, n_commit>>

NetWorkerReceive(msg, elapsed) ==
    /\ WorkerReceive(msg, elapsed)
    /\ op' = "worker_receive" /\ prev_op' = op
    /\ UNCHANGED <<appVars, uiVars, crashed, gU, gR, anchor, depth, n_ill, sendObs>>

NetWorkerIdle(outcome) ==
    /\ WorkerIdle(outcome)
    /\ op' = outcome /\ prev_op' = op
    /\ UNCHANGED <<appVars, uiVars, crashed, gU, gR, anchor, depth, n_ill, sendObs>>

NextNet ==
    \/ NetConnect
    \/ NetDisconnectReset
    \/ NetDisconnect
    \/ \E msg \in Msgs, send_ok \in BOOLEAN : NetBroadcast(msg, send_ok)
    \/ NetPoll
    \/ \E msg \in Msgs, elapsed \in BOOLEAN : NetWorkerReceive(msg, elapsed)
    \/ \E outcome \in {"undecodable", "WouldBlock", "error"} : NetWorkerIdle(outcome)

SpecNet == InitApp /\ [][NextNet]_vars

\* The transport with a worker that is scheduled and a network that keeps
\* delivering decodable datagrams: the worker is an OS thread whose loop only
\* sleeps 10 ms or 100 ms between two recv_from calls.
SpecNetFair ==
    SpecNet /\ WF_vars(\E msg \in Msgs, elapsed \in BOOLEAN : NetWorkerReceive(msg, elapsed))

\* -------------------------------------------------- selection and hit-testing
\* a plausible slip: the projection parameter is not clamped (the distance to
\* the whole line through a and b)
dist_to_segment_sq_unclamped(p, a, b) ==
    LET l2 == (a[1] - b[1]) * (a[1] - b[1]) + (a[2] - b[2]) * (a[2] - b[2])
        pa2 == (p[1] - a[1]) * (p[1] - a[1]) + (p[2] - a[2]) * (p[2] - a[2])
        dot == (p[1] - a[1]) * (b[1] - a[1]) + (p[2] - a[2]) * (b[2] - a[2])
    IN IF l2 = 0 THEN [num |-> pa2, den |-> 1]
       ELSE [num |-> pa2 * l2 - dot * dot, den |-> l2]

\* utils::dist_to_segment, squared and as a fraction num / den: the projection
\* parameter t = dot / l2 is clamped to [0, 1]
dist_to_segment_sq(p, a, b) ==
    LET l2 == (a[1] - b[1]) * (a[1] - b[1]) + (a[2] - b[2]) * (a[2] - b[2])
        pa2 == (p[1] - a[1]) * (p[1] - a[1]) + (p[2] - a[2]) * (p[2] - a[2])
        pb2 == (p[1] - b[1]) * (p[1] - b[1]) + (p[2] - b[2]) * (p[2] - b[2])
        dot == (p[1] - a[1]) * (b[1] - a[1]) + (p[2] - a[2]) * (b[2] - a[2])
    IN IF l2 = 0 THEN [num |-> pa2, den |-> 1]
       ELSE IF dot <= 0 THEN [num |-> pa2, den |-> 1]
       ELSE IF dot >= l2 THEN [num |-> pb2, den |-> 1]
       ELSE [num |-> pa2 * l2 - dot * dot, den |-> l2]

\* points.windows(2).any(|w| dist_to_segment(pos, w[0], w[1]) < threshold)
HitStroke(line, pos, threshold) ==
    \E k \in 1..(Len(line.points) - 1) :
        LET d == dist_to_segment_sq(pos, line.points[k], line.points[k + 1])
        IN d.num < threshold * threshold * d.den

\* the first stroke hit, as an index, or -1 for None
FirstHit(ls, pos, threshold) ==
    IF \E i \in DOMAIN ls : HitStroke(ls[i], pos, threshold)
    THEN (CHOOSE i \in DOMAIN ls :
             /\ HitStroke(ls[i], pos, threshold)
             /\ \A j \in 1..(i - 1) : ~HitStroke(ls[j], pos, threshold)) - 1
    ELSE 0 - 1

\* PaintApp::get_line_rect(idx).contains(pos): the bounding box of the points
\* expanded by width / 2 + 5, compared in doubled coordinates; Rect::NOTHING
\* (no such stroke) contains nothing
LineRectContains(ls, idx, pos) ==
    /\ idx < Len(ls)
    /\ At(ls, idx).points # <<>>
    /\ LET l == At(ls, idx)
           m == l.width + 2 * RectMargin
       IN /\ \E k \in DOMAIN l.points : 2 * pos[1] >= 2 * l.points[k][1] - m
          /\ \E k \in DOMAIN l.points : 2 * pos[1] <= 2 * l.points[k][1] + m
          /\ \E k \in DOMAIN l.points : 2 * pos[2] >= 2 * l.points[k][2] - m
          /\ \E k \in DOMAIN l.points : 2 * pos[2] <= 2 * l.points[k][2] + m

\* Rect::from_two_pos
RectFromTwoPos(a, b) ==
    [min |-> <<Min(a[1], b[1]), Min(a[2], b[2])>>, max |-> <<Max(a[1], b[1]), Max(a[2], b[2])>>]

\* Rect::contains
RectContains(rect, p) ==
    /\ rect.min[1] <= p[1] /\ p[1] <= rect.max[1]
    /\ rect.min[2] <= p[2] /\ p[2] <= rect.max[2]

\* enumerate().filter(..).map(|(i, _)| i).collect(): the indices of S, ascending
RECURSIVE Ascending(_)
Ascending(S) ==
    IF S = {} THEN <<>>
    ELSE LET m == CHOOSE x \in S : \A y \in S : x <= y IN <<m>> \o Ascending(S \ {m})

\* selected_indices.iter().filter_map(|&i| self.lines.get(i)...): the selected
\* indices the Store has, in selection order
RECURSIVE InRange(_, _)
InRange(sel, ls) ==
    IF sel = <<>> THEN <<>>
    ELSE (IF Head(sel) < Len(ls) THEN <<Head(sel)>> ELSE <<>>) \o InRange(Tail(sel), ls)

\* ------------------------------------------------- the interactive handlers
\* PaintApp::copy_selected
copy_selected(c) ==
    IF c.selected_indices = <<>> THEN c
    ELSE LET kept == InRange(c.selected_indices, c.lines) IN
         [c EXCEPT !.clipboard = [k \in DOMAIN kept |-> At(c.lines, kept[k])]]

\* if self.network.is_connected() { let _ = self.network.broadcast_message(..) }
Broadcast(c, conn) == IF conn THEN [c EXCEPT !.sends = @ + 1] ELSE c

\* a plausible slip: the copies are not offset
paste_noOffset(c) ==
    IF c.clipboard = <<>> THEN c
    ELSE LET new_lines == c.clipboard
             serialized == [k \in DOMAIN new_lines |-> SerializableLineFrom(new_lines[k])]
             c1 == execute(c, Create(serialized))
             start_idx == Len(c1.lines) - Len(new_lines)
         IN IF c1.panic \/ start_idx < 0 THEN [c1 EXCEPT !.panic = TRUE]
            ELSE [c1 EXCEPT !.clipboard = new_lines,
                            !.selected_indices = RangeSeq(start_idx, Len(c1.lines))]

\* PaintApp::paste; a negative start index is the usize subtraction overflowing
paste(c) ==
    IF c.clipboard = <<>> THEN c
    ELSE LET new_lines == [k \in DOMAIN c.clipboard |->
                              Translate(c.clipboard[k], PasteOffset, PasteOffset)]
             serialized == [k \in DOMAIN new_lines |-> SerializableLineFrom(new_lines[k])]
             c1 == execute(c, Create(serialized))
             start_idx == Len(c1.lines) - Len(new_lines)
         IN IF c1.panic \/ start_idx < 0 THEN [c1 EXCEPT !.panic = TRUE]
            ELSE [c1 EXCEPT !.clipboard = new_lines,
                            !.selected_indices = RangeSeq(start_idx, Len(c1.lines))]

\* PaintApp::delete_selected
delete_selected(c, conn) ==
    IF c.selected_indices = <<>> THEN c
    ELSE LET kept == InRange(c.selected_indices, c.lines)
             indexed == SortByKey([k \in DOMAIN kept |-> <<kept[k], At(c.lines, kept[k])>>])
             indices == [k \in DOMAIN indexed |-> indexed[k][1]]
             slines == [k \in DOMAIN indexed |-> SerializableLineFrom(indexed[k][2])]
             c1 == Broadcast(execute(c, Delete(indices, slines)), conn)
         IN IF c1.panic THEN c1 ELSE [c1 EXCEPT !.selected_indices = <<>>]

\* PaintApp::clear_all
clear_all(c) ==
    IF c.lines = <<>> THEN c
    ELSE LET indices == RangeSeq(0, Len(c.lines))
             slines == [k \in DOMAIN c.lines |-> SerializableLineFrom(c.lines[k])]
             c1 == execute(c, Delete(indices, slines))
         IN IF c1.panic THEN c1 ELSE [c1 EXCEPT !.selected_indices = <<>>]

\* update, the "Appliquer Couleur" and "Appliquer Taille" buttons: field is
\* "color" or "width", value the brush colour or the brush size
apply_style(c, field, value) ==
    LET Restyle(l) == IF field = "color" THEN [l EXCEPT !.color = value]
                      ELSE [l EXCEPT !.width = value]
        kept == InRange(c.selected_indices, c.lines)
        old == [k \in DOMAIN kept |-> SerializableLineFrom(At(c.lines, kept[k]))]
        new == [k \in DOMAIN kept |-> SerializableLineFrom(Restyle(At(c.lines, kept[k])))]
    IN execute(c, Modify(c.selected_indices, old, new))

\* update, BrushMode::Eraser: the first stroke within brush_size of pos is deleted
erase(c, pos, size) ==
    LET idx == FirstHit(c.lines, pos, size) IN
    IF idx < 0 THEN c
    ELSE execute(c, Delete(<<idx>>, <<SerializableLineFrom(At(c.lines, idx))>>))

\* update, drawing modes, response.dragged()
draw_dragged(m, cl, pos) ==
    IF m = "StraightLine"
    THEN LET cl1 == IF cl = <<>> THEN <<pos>> ELSE cl
             cl2 == IF Len(cl1) > 1 THEN Front(cl1) ELSE cl1
         IN Append(cl2, pos)
    ELSE Append(cl, pos)

\* update, drawing modes, response.drag_released() with a stroke in progress
draw_released(c, cl, colour, size, conn) ==
    LET line == [points |-> cl, color |-> colour, width |-> size] IN
    Broadcast(execute(c, Create(<<SerializableLineFrom(line)>>)), conn)

\* update, BrushMode::Select, drag_started: the stroke under the pointer, a
\* selected one first; -1 for None
select_hit(c, pos) ==
    IF \E k \in DOMAIN c.selected_indices : LineRectContains(c.lines, c.selected_indices[k], pos)
    THEN c.selected_indices[CHOOSE k \in DOMAIN c.selected_indices :
            /\ LineRectContains(c.lines, c.selected_indices[k], pos)
            /\ \A j \in 1..(k - 1) : ~LineRectContains(c.lines, c.selected_indices[j], pos)]
    ELSE FirstHit(c.lines, pos, SelectThreshold)

\* update, BrushMode::Select, drag_released over a selection rectangle
rect_selection(ls, rect) ==
    Ascending({i \in 0..(Len(ls) - 1) :
                 \E k \in DOMAIN At(ls, i).points : RectContains(rect, At(ls, i).points[k])})

\* Pointer positions and drag deltas the input layer delivers.
PosSet == {<<0, 0>>, <<20, 20>>}

Deltas == {<<20, 20>>, <<0 - 20, 0 - 20>>}

Modes == {"Freehand", "StraightLine", "Eraser", "Select"}

\* Brush settings: the default ones and one other colour and size.
Brushes == {[color |-> <<0, 150, 255, 255>>, size |-> 4],
            [color |-> from_rgba_unmultiplied(255, 0, 0, 128), size |-> 12]}

\* The model's bound on the application state.
Within(l) ==
    \A k \in DOMAIN l.points : /\ 0 <= l.points[k][1] /\ l.points[k][1] <= MaxAppCoord
                               /\ 0 <= l.points[k][2] /\ l.points[k][2] <= MaxAppCoord

AppBounded(c) ==
    /\ Len(c.lines) <= MaxAppLines
    /\ Len(c.undo_stack) <= MaxAppHist
    /\ \A k \in DOMAIN c.lines : Within(c.lines[k])
    /\ \A k \in DOMAIN c.clipboard : Within(c.clipboard[k])

\* What this pass adds to the observation of a drag of selected strokes: the
\* Store, selection and history when the drag started, the drag events since,
\* and whether no other command ran in between.  It is kept for one pass after
\* the release.
Observed ==
    IF pointer = "up" /\ is_dragging_items'
    THEN [phase |-> "dragging", pre |-> lines, sel |-> selected_indices',
          hist |-> undo_stack, events |-> 0, clean |-> TRUE]
    ELSE IF gesture.phase # "dragging" THEN NoGesture
    ELSE IF pointer' = "up" THEN [gesture EXCEPT !.phase = "released"]
    ELSE IF drag_accumulated_delta' # drag_accumulated_delta
         THEN [gesture EXCEPT !.events = @ + 1]
    ELSE [NoGesture EXCEPT !.phase = "dragging", !.clean = FALSE]

\* eframe calls update once more
Pass ==
    /\ n_pass < MaxPasses
    /\ n_pass' = n_pass + 1
    /\ op' = "update"
    /\ gesture' = Observed
    /\ UNCHANGED <<fnVars, inboxObs>>

\* One pass of update has run a handler on the history fields.
UiCommit(c) ==
    /\ AppBounded(c)
    /\ Store(c)
    /\ n_commit' = c.commits /\ n_send' = c.sends
    /\ Pass
    /\ UNCHANGED <<prev_op, gU, gR, anchor, depth, n_ill, result>>

\* One pass of update that leaves the history fields alone.
UiIdle ==
    /\ UNCHANGED <<appVars, crashed>>
    /\ n_commit' = 0 /\ n_send' = 0
    /\ Pass
    /\ UNCHANGED <<prev_op, gU, gR, anchor, depth, n_ill, result>>

KeyUndo == ~crashed /\ UNCHANGED <<inputVars, netVars>> /\ UiCommit(undo(Core))

KeyRedo == ~crashed /\ UNCHANGED <<inputVars, netVars>> /\ UiCommit(redo(Core))

KeyCopy == ~crashed /\ UNCHANGED <<inputVars, netVars>> /\ UiCommit(copy_selected(Core))

KeyPaste == ~crashed /\ UNCHANGED <<inputVars, netVars>> /\ UiCommit(paste(Core))

KeyDelete ==
    ~crashed /\ UNCHANGED <<inputVars, netVars>> /\ UiCommit(delete_selected(Core, connected))

ClearAll ==
    /\ ~crashed /\ lines # <<>>
    /\ UNCHANGED <<inputVars, netVars>> /\ UiCommit(clear_all(Core))

ApplyColour ==
    /\ ~crashed /\ selected_indices # <<>>
    /\ UNCHANGED <<inputVars, netVars>>
    /\ UiCommit(apply_style(Core, "color", brush_color))

ApplySize ==
    /\ ~crashed /\ selected_indices # <<>>
    /\ UNCHANGED <<inputVars, netVars>>
    /\ UiCommit(apply_style(Core, "width", brush_size))

\* the network button: disconnect when connected, else connect
ToggleConnect ==
    /\ ~crashed
    /\ IF connected THEN disconnect
       ELSE (\E step \in ConnectSteps : ConnectFail(step)) \/ ConnectOk
    /\ UNCHANGED <<appVars, inputVars, crashed>>
    /\ n_commit' = 0 /\ n_send' = 0
    /\ Pass
    /\ UNCHANGED <<prev_op, gU, gR, anchor, depth, n_ill, result>>

SetMode(m) ==
    /\ ~crashed /\ pointer = "up" /\ m # mode
    /\ mode' = m
    /\ UNCHANGED <<brush_color, brush_size, current_line, selection_start_pos,
                   selection_rect, is_dragging_items, drag_accumulated_delta, pointer>>
    /\ UiIdle /\ UNCHANGED netVars

SetBrush(b) ==
    /\ ~crashed /\ pointer = "up" /\ (b.color # brush_color \/ b.size # brush_size)
    /\ brush_color' = b.color /\ brush_size' = b.size
    /\ UNCHANGED <<mode, current_line, selection_start_pos, selection_rect,
                   is_dragging_items, drag_accumulated_delta, pointer>>
    /\ UiIdle /\ UNCHANGED netVars

\* BrushMode::Select: the drag_started branch, then the dragged branch with delta
SelectDrag(started, pos, delta) ==
    LET hit == select_hit(Core, pos)
        sel1 == IF ~started THEN selected_indices
                ELSE IF hit >= 0
                     THEN (IF Contains(selected_indices, hit) THEN selected_indices ELSE <<hit>>)
                     ELSE <<>>
        dragging1 == IF started /\ hit >= 0 THEN TRUE ELSE is_dragging_items
        acc1 == IF started /\ hit >= 0 THEN <<0, 0>> ELSE drag_accumulated_delta
        start1 == IF started /\ hit < 0 THEN Some(pos) ELSE selection_start_pos
    IN /\ is_dragging_items' = dragging1
       /\ selection_start_pos' = start1
       /\ IF dragging1
          THEN /\ drag_accumulated_delta' = <<acc1[1] + delta[1], acc1[2] + delta[2]>>
               /\ selection_rect' = selection_rect
               /\ UiCommit([Core EXCEPT !.selected_indices = sel1,
                                        !.lines = MoveAll(lines, sel1, delta[1], delta[2])])
          ELSE /\ drag_accumulated_delta' = acc1
               /\ selection_rect' = IF start1 # None THEN Some(RectFromTwoPos(start1[1], pos))
                                    ELSE selection_rect
               /\ UiCommit([Core EXCEPT !.selected_indices = sel1])

\* a plausible slip: the release reverts the preview and records the Move
\* without executing it
SelectRelease_notApplied ==
    IF is_dragging_items
    THEN /\ is_dragging_items' = FALSE
         /\ UNCHANGED <<selection_start_pos, selection_rect, drag_accumulated_delta>>
         /\ IF drag_accumulated_delta # <<0, 0>>
            THEN LET total == drag_accumulated_delta
                     reverted == MoveAll(lines, selected_indices, 0 - total[1], 0 - total[2])
                 IN UiCommit([Core EXCEPT
                                 !.lines = reverted,
                                 !.undo_stack = Append(@, Move(selected_indices,
                                                               total[1], total[2])),
                                 !.redo_stack = <<>>,
                                 !.commits = 1])
            ELSE UiCommit(Core)
    ELSE /\ UNCHANGED <<is_dragging_items, drag_accumulated_delta>>
         /\ IF selection_rect # None
            THEN /\ selection_rect' = None
                 /\ selection_start_pos' = None
                 /\ UiCommit([Core EXCEPT !.selected_indices =
                                              rect_selection(lines, selection_rect[1])])
            ELSE /\ UNCHANGED <<selection_rect, selection_start_pos>>
                 /\ UiCommit(Core)

\* BrushMode::Select: the drag_released branch
SelectRelease ==
    IF is_dragging_items
    THEN /\ is_dragging_items' = FALSE
         /\ UNCHANGED <<selection_start_pos, selection_rect, drag_accumulated_delta>>
         /\ IF drag_accumulated_delta # <<0, 0>>
            THEN LET total == drag_accumulated_delta
                     reverted == MoveAll(lines, selected_indices, 0 - total[1], 0 - total[2])
                 IN UiCommit(execute([Core EXCEPT !.lines = reverted],
                                     Move(selected_indices, total[1], total[2])))
            ELSE UiCommit(Core)
    ELSE /\ UNCHANGED <<is_dragging_items, drag_accumulated_delta>>
         /\ IF selection_rect # None
            THEN /\ selection_rect' = None
                 /\ selection_start_pos' = None
                 /\ UiCommit([Core EXCEPT !.selected_indices =
                                              rect_selection(lines, selection_rect[1])])
            ELSE /\ UNCHANGED <<selection_rect, selection_start_pos>>
                 /\ UiCommit(Core)

\* A pass of update in which the pointer is dragged over the canvas: started is
\* response.drag_started(), delta is response.drag_delta().
PointerDrag(started, pos, delta) ==
    /\ ~crashed
    /\ pointer = (IF started THEN "up" ELSE "down")
    /\ started => delta = <<0, 0>>
    /\ pointer' = "down"
    /\ UNCHANGED <<mode, brush_color, brush_size, netVars>>
    /\ CASE mode \in {"Freehand", "StraightLine"} ->
              /\ mode = "Freehand" => Len(current_line) < MaxPts
              /\ current_line' = draw_dragged(mode, current_line, pos)
              /\ UNCHANGED <<selection_start_pos, selection_rect, is_dragging_items,
                             drag_accumulated_delta>>
              /\ UiCommit(Core)
         [] mode = "Eraser" ->
              /\ UNCHANGED <<current_line, selection_start_pos, selection_rect,
                             is_dragging_items, drag_accumulated_delta>>
              /\ UiCommit(erase(Core, pos, brush_size))
         [] mode = "Select" ->
              /\ UNCHANGED current_line
              /\ SelectDrag(started, pos, delta)

\* A pass of update in which the drag ends.
PointerRelease ==
    /\ ~crashed
    /\ pointer = "down"
    /\ pointer' = "up"
    /\ UNCHANGED <<mode, brush_color, brush_size, netVars>>
    /\ CASE mode \in {"Freehand", "StraightLine"} ->
              /\ UNCHANGED <<selection_start_pos, selection_rect, is_dragging_items,
                             drag_accumulated_delta>>
              /\ IF current_line # <<>>
                 THEN /\ current_line' = <<>>
                      /\ UiCommit(draw_released(Core, current_line, brush_color,
                                                brush_size, connected))
                 ELSE /\ UNCHANGED current_line
                      /\ UiCommit(Core)
         [] mode = "Eraser" ->
              /\ UNCHANGED <<current_line, selection_start_pos, selection_rect,
                             is_dragging_items, drag_accumulated_delta>>
              /\ UiCommit(Core)
         [] mode = "Select" ->
              /\ UNCHANGED current_line
              /\ SelectRelease

\* A pass of update in which the canvas is clicked: only the eraser reacts.
PointerClick(pos) ==
    /\ ~crashed
    /\ pointer = "up" /\ mode = "Eraser"
    /\ UNCHANGED <<inputVars, netVars>>
    /\ UiCommit(erase(Core, pos, brush_size))

\* a plausible slip: the worker records what it receives as a history entry
AppWorkerReceive_recorded(msg, elapsed) ==
    /\ WorkerReceive(msg, elapsed)
    /\ op' = "worker"
    /\ undo_stack' = Append(undo_stack, Create(<<P1>>))
    /\ UNCHANGED <<lines, redo_stack, selected_indices, clipboard>>
    /\ UNCHANGED <<uiVars, crashed, engineObs, sendObs>>

\* The receive worker beside the application.
AppWorkerReceive(msg, elapsed) ==
    /\ WorkerReceive(msg, elapsed)
    /\ op' = "worker"
    /\ UNCHANGED <<appVars, uiVars, crashed, engineObs, sendObs>>

AppWorkerIdle(outcome) ==
    /\ WorkerIdle(outcome)
    /\ op' = "worker"
    /\ UNCHANGED <<appVars, uiVars, crashed, engineObs, sendObs>>

Next ==
    \/ KeyUndo
    \/ KeyRedo
    \/ KeyCopy
    \/ KeyPaste
    \/ KeyDelete
    \/ ClearAll
    \/ ApplyColour
    \/ ApplySize
    \/ ToggleConnect
    \/ \E m \in Modes : SetMode(m)
    \/ \E b \in Brushes : SetBrush(b)
    \/ \E pos \in PosSet : PointerDrag(TRUE, pos, <<0, 0>>)
    \/ \E pos \in PosSet, delta \in Deltas : PointerDrag(FALSE, pos, delta)
    \/ PointerRelease
    \/ \E pos \in PosSet : PointerClick(pos)

Spec == InitApp /\ [][Next]_vars

\* The application with its receive worker: drawing, undo, redo and the network
\* button on one side, the worker on the other.
NextInbound ==
    \/ ToggleConnect
    \/ \E pos \in PosSet : PointerDrag(TRUE, pos, <<0, 0>>)
    \/ PointerRelease
    \/ KeyUndo
    \/ KeyRedo
    \/ \E elapsed \in BOOLEAN : AppWorkerReceive(DrawLineMsg(P1), elapsed)
    \/ AppWorkerIdle("WouldBlock")

SpecInbound == InitApp /\ [][NextInbound]_vars

\* NetworkManager::poll_events called beside the application: it is public, and
\* the only way a received message leaves the inbox.
AppPoll ==
    /\ poll_events
    /\ op' = "poll_events"
    /\ UNCHANGED <<connected, peer_count, sender, workers, pc>>
    /\ UNCHANGED <<appVars, uiVars, crashed, engineObs, sendObs>>

NextIngest ==
    \/ NextInbound
    \/ AppPoll

SpecIngest == InitApp /\ [][NextIngest]_vars

\* ------------------------------------------ the codec, applied on its own
\* Channel values the codec is driven with: both ends, the middle and their
\* neighbours.
Channels == {0, 1, 128, 254, 255}

\* The Color32 values a stroke can carry: what from_rgba_unmultiplied builds.
StrokeColors ==
    {from_rgba_unmultiplied(r, g, b, a) : r \in Channels, g \in Channels,
                                          b \in Channels, a \in Channels}

CodecPoints == {<<>>, <<<<5, 3>>>>, <<<<0, 0>>, <<10, 0>>>>}

CodecLines ==
    [points : CodecPoints, color : StrokeColors, width : {1, 4}]

ChannelTuples == Channels \X Channels \X Channels \X Channels

\* a u32 given as its four bytes, most significant first, as its high and low
\* 16-bit halves (the whole value is beyond the integers of the checker)
U32Halves(bytes) == <<bytes[1] * 256 + bytes[2], bytes[3] * 256 + bytes[4]>>

InitCodec ==
    /\ InitFields
    /\ ret = NoArg
    /\ arg \in {[kind |-> "line", v |-> l] : l \in CodecLines}
             \cup {[kind |-> "channels", v |-> c] : c \in ChannelTuples}

\* SerializableLine::from(&line)
CodecEncode ==
    /\ op = "init" /\ arg.kind = "line"
    /\ ret' = SerializableLineFrom(arg.v)
    /\ op' = "encode"
    /\ UNCHANGED <<appVars, inputVars, n_pass, gesture, netVars, crashed, engineObs,
                   sendObs, arg, inboxObs>>

\* Line::from(&sline)
CodecDecode ==
    /\ op = "encode"
    /\ ret' = LineFrom(ret)
    /\ op' = "decode"
    /\ UNCHANGED <<appVars, inputVars, n_pass, gesture, netVars, crashed, engineObs,
                   sendObs, arg, inboxObs>>

\* the packing of [r, g, b, a] into the u32
CodecPack ==
    /\ op = "init" /\ arg.kind = "channels"
    /\ ret' = PackColor(arg.v[1], arg.v[2], arg.v[3], arg.v[4])
    /\ op' = "pack"
    /\ UNCHANGED <<appVars, inputVars, n_pass, gesture, netVars, crashed, engineObs,
                   sendObs, arg, inboxObs>>

\* the four shift-and-mask reads of the u32, in the order r, g, b, a
CodecUnpack ==
    /\ op = "pack"
    /\ ret' = <<ByteOf(ret, 16), ByteOf(ret, 8), ByteOf(ret, 0), ByteOf(ret, 24)>>
    /\ op' = "unpack"
    /\ UNCHANGED <<appVars, inputVars, n_pass, gesture, netVars, crashed, engineObs,
                   sendObs, arg, inboxObs>>

NextCodec ==
    \/ CodecEncode
    \/ CodecDecode
    \/ CodecPack
    \/ CodecUnpack

SpecCodec == InitCodec /\ [][NextCodec]_vars

\* ----------------------------------- dist_to_segment, applied on its own
\* Coordinates the function is driven with.
HitCoords == {0, 3, 5, 10, 15}

HitPoints == HitCoords \X HitCoords

\* The segment is cut in Samples equal parts to compare with its points.
Samples == 4

InitHit ==
    /\ InitFields
    /\ ret = NoArg
    /\ arg \in [kind : {"segment"}, p : HitPoints, a : HitPoints, b : HitPoints]

DistToSegment ==
    /\ op = "init" /\ arg.kind = "segment"
    /\ ret' = dist_to_segment_sq(arg.p, arg.a, arg.b)
    /\ op' = "dist_to_segment"
    /\ UNCHANGED <<appVars, inputVars, n_pass, gesture, netVars, crashed, engineObs,
                   sendObs, arg, inboxObs>>

NextHit == DistToSegment

SpecHit == InitHit /\ [][NextHit]_vars

\* --------------------------------------------- the inbox and its two users
\* Events enqueued in one run of SpecInbox.
MaxLog == 3

InboxConnect ==
    /\ pc = "idle"
    /\ connect
    /\ op' = "connect" /\ prev_op' = op
    /\ n_send' = 0
    /\ UNCHANGED <<appVars, uiVars, crashed, gU, gR, anchor, depth, n_ill, n_commit>>

\* The worker pushes a decoded message under the inbox lock.
InboxWorkerReceive(msg, elapsed) ==
    /\ Len(enqueued) < MaxLog
    /\ WorkerReceive(msg, elapsed)
    /\ enqueued' = Append(enqueued, MessageReceived(msg))
    /\ op' = "worker_receive" /\ prev_op' = op
    /\ UNCHANGED <<appVars, inputVars, n_pass, gesture, fnVars, returned, crashed,
                   gU, gR, anchor, depth, n_ill, sendObs>>

\* poll_events under the inbox lock: events.drain(..).collect() returns the
\* content of the inbox, first enqueued first.
InboxPoll ==
    /\ pc = "idle"
    /\ returned' = returned \o events
    /\ poll_events
    /\ op' = "poll_events" /\ prev_op' = op
    /\ UNCHANGED <<connected, peer_count, sender, workers, pc>>
    /\ UNCHANGED <<appVars, inputVars, n_pass, gesture, fnVars, enqueued, crashed,
                   gU, gR, anchor, depth, n_ill, sendObs>>

NextInbox ==
    \/ InboxConnect
    \/ \E msg \in Msgs, elapsed \in BOOLEAN : InboxWorkerReceive(msg, elapsed)
    \/ InboxPoll

SpecInbox == InitApp /\ [][NextInbox]_vars

\* ------------------------------------------- copy and paste, driven directly
\* One call of a PaintApp method on the history fields, outside update.
AppCall(c, name) ==
    /\ ~crashed
    /\ Bounded(c.lines)
    /\ \A k \in DOMAIN c.clipboard : Bounded(<<c.clipboard[k]>>)
    /\ Len(c.undo_stack) <= MaxHist
    /\ Store(c)
    /\ op' = name /\ prev_op' = op
    /\ UNCHANGED <<uiVars, netVars, sendObs, gU, gR, anchor, depth, n_ill>>

\* a stroke is drawn
PasteDraw(sline) == AppCall(execute(Core, Create(<<sline>>)), "draw")

\* a click or a rectangle selects the strokes at the positions S
PasteSelect(S) ==
    /\ S \subseteq 0..(Len(lines) - 1)
    /\ Ascending(S) # selected_indices
    /\ AppCall([Core EXCEPT !.selected_indices = Ascending(S)], "select")

PasteCopy == selected_indices # <<>> /\ AppCall(copy_selected(Core), "copy")

PastePaste ==
    AppCall(paste(Core), IF clipboard = <<>> THEN "paste_empty" ELSE "paste")

\* the undo that follows a paste
PasteUndo == op = "paste" /\ AppCall(undo(Core), "undo")

NextPaste ==
    \/ \E sline \in {P1, P2} : PasteDraw(sline)
    \/ \E S \in SUBSET (0..(MaxLines - 1)) : PasteSelect(S)
    \/ PasteCopy
    \/ PastePaste
    \/ PasteUndo

SpecPaste == InitApp /\ [][NextPaste]_vars

\* ----------------------------------------------------------------- claims
\* C1 (round-trip): execute(action) of a well-formed action followed immediately
\* by undo() leaves the Store equal, stroke for stroke and position for position,
\* to the Store before the execute, for every pair of every run.
C1_RoundTrip ==
    (op = "undo" /\ prev_op = "execute") => (~crashed /\ lines = Last(gR).pre)

C1_Witness ==
    /\ op = "undo" /\ prev_op = "execute" /\ ~crashed
    /\ Len(lines) >= 2
    /\ redo_stack # <<>> /\ Last(redo_stack).type = "Move"
    /\ Last(redo_stack).indices = <<1, 2>>

\* C2 (LIFO undo): whatever well-formed executes, undos and redos came before,
\* an undo() brings the Store back to the state it had before the execute of the
\* entry it pops, so k undos walk back through the last k executes, and with the
\* undo stack emptied the Store is the initial, empty one.
C2_LifoUndo ==
    op = "undo" =>
        /\ ~crashed
        /\ lines = Last(gR).pre
        /\ gU # <<>> => lines = Last(gU).post
        /\ undo_stack = <<>> => lines = <<>>

C2_Witness ==
    /\ op = "undo" /\ prev_op = "undo" /\ ~crashed
    /\ undo_stack = <<>> /\ lines = <<>>
    /\ Len(redo_stack) = 2
    /\ redo_stack[2].type = "Create" /\ redo_stack[1].type = "Delete"
    /\ redo_stack[1].indices = <<0>>

\* C3 (redo fidelity): a redo() reproduces the Store that existed right after the
\* execute of the entry it re-applies; during a run of undos followed by redos the
\* undo stack is the prefix of the one the run started with, the redo stack keeps
\* what it held below the undone entries, and as many redos as undos restore
\* Store, undo_stack and redo_stack.
C3_RedoFidelity ==
    /\ op = "redo" => (~crashed /\ lines = Last(gU).post)
    /\ (op \in {"undo", "redo"} /\ anchor # "none") =>
          /\ undo_stack = SubSeq(anchor[2], 1, Len(anchor[2]) - depth)
          /\ Len(redo_stack) = Len(anchor[3]) + depth
          /\ SubSeq(redo_stack, 1, Len(anchor[3])) = anchor[3]
          /\ depth = 0 => <<lines, undo_stack, redo_stack>> = anchor

C3_Witness ==
    /\ op = "redo" /\ prev_op = "redo" /\ ~crashed
    /\ anchor # "none" /\ depth = 0
    /\ Len(undo_stack) >= 2
    /\ Last(undo_stack).type = "Delete"

\* C4 (history branching): every execute() leaves redo_stack empty, whatever came
\* before it, and a redo() issued right after an execute() changes neither the
\* Store nor either stack.
C4_HistoryBranching ==
    [][/\ (op' = "execute" /\ ~crashed') => redo_stack' = <<>>
       /\ (op = "execute" /\ op' \in {"redo", "redo_empty"}) =>
             UNCHANGED <<lines, undo_stack, redo_stack>>]_vars

C4_Witness ==
    /\ op = "redo_empty" /\ prev_op = "execute" /\ ~crashed
    /\ Len(undo_stack) >= 2
    /\ gU[Len(gU)].pre # gU[Len(gU)].post

\* C5 (delete/undo symmetry): after a Delete of distinct in-range indices listed in
\* any order and the undo() that follows, every cached stroke is back at its own
\* index and every stroke of the Store is back at its original position.
C5_DeleteUndoSymmetry ==
    (op = "undo" /\ prev_op = "execute") =>
        /\ ~crashed
        /\ Last(redo_stack).type = "Delete" =>
              /\ \A k \in DOMAIN Last(redo_stack).indices :
                    At(lines, Last(redo_stack).indices[k]) = LineFrom(Last(redo_stack).lines[k])
              /\ lines = Last(gR).pre

C5_Witness ==
    /\ op = "undo" /\ prev_op = "execute" /\ ~crashed
    /\ redo_stack # <<>> /\ Last(redo_stack).type = "Delete"
    /\ Last(redo_stack).indices = <<MaxLines - 1, 1>>
    /\ Len(lines) = MaxLines
    /\ At(lines, 1) # At(lines, MaxLines - 1)

\* C6: an action that carries an index the Store does not have is applied and
\* inverted without a failure, and neither step touches the Store for that
\* index: undoing it right after executing it leaves the Store as it was before.
C6_OutOfRangeNoOp ==
    /\ ~crashed
    /\ (op = "undo" /\ prev_op = "execute" /\ ~Last(gR).wf) => lines = Last(gR).pre

\* C7: no sequence of user-level operations from the default state reaches a
\* panic.
C7_NoCrash == ~crashed

\* A selection gone stale (its stroke was removed by a redo) has had a colour or
\* a size applied: the Modify on top of the history names more indices than it
\* caches strokes, and it was executed without a panic.
C7_Witness ==
    /\ ~crashed
    /\ undo_stack # <<>> /\ Last(undo_stack).type = "Modify"
    /\ Len(Last(undo_stack).indices) > Len(Last(undo_stack).new)
    /\ selected_indices # <<>>
    /\ \E k \in DOMAIN selected_indices : selected_indices[k] >= Len(lines)

\* C8: while the transport is connected, every action a pass of update commits
\* is handed to the transport for exactly one send.
C8_EveryCommitSent == (op = "update" /\ connected) => n_send = n_commit

\* C9: broadcast_message on a disconnected transport returns the "not connected"
\* failure, emits no datagram and changes no state.
C9_DisconnectedSend ==
    [][(op' = "broadcast_message" /\ ~connected)
       => /\ result' = "Err: Not connected to network"
          /\ n_send' = 0
          /\ UNCHANGED <<netVars, appVars, inputVars, crashed>>]_vars

\* broadcast_message has just failed on a transport that was connected and then
\* disconnected, its worker still running.
C9_Witness ==
    /\ op = "broadcast_message" /\ prev_op = "disconnect"
    /\ ~connected /\ workers = 1
    /\ result = "Err: Not connected to network" /\ n_send = 0

\* C10: a pass of update drains the inbox: after it, no MessageReceived event
\* the worker enqueued before it is still waiting.
C10_InboxDrained == op = "update" => events = <<>>

\* C11: history is local.  A step of the receive worker and a poll of the inbox
\* leave undo_stack and redo_stack as they are; the stacks change only in a pass
\* of update, and then as execute, undo or redo changes them.
C11_HistoryLocal ==
    [][/\ op' \in {"worker", "poll_events"} => UNCHANGED <<undo_stack, redo_stack>>
       /\ (undo_stack' # undo_stack \/ redo_stack' # redo_stack) =>
             /\ op' = "update"
             /\ \/ /\ Len(undo_stack') = Len(undo_stack) + 1
                   /\ Front(undo_stack') = undo_stack
                   /\ redo_stack' = <<>>
                \/ /\ undo_stack # <<>>
                   /\ undo_stack' = Front(undo_stack)
                   /\ redo_stack' = Append(redo_stack, Last(undo_stack))
                \/ /\ redo_stack # <<>>
                   /\ redo_stack' = Front(redo_stack)
                   /\ undo_stack' = Append(undo_stack, Last(redo_stack))]_vars

\* The worker has just enqueued a message while both stacks hold an entry.
C11_Witness ==
    /\ op = "worker" /\ events # <<>>
    /\ undo_stack # <<>> /\ redo_stack # <<>>

C13_ConnectAgainNoOp ==
    [][(op' = "connect" /\ connected) => (result' = "Ok" /\ UNCHANGED netVars)]_vars

\* connect has returned on a transport that was connected before the call and
\* had received a message.
C13_Witness ==
    /\ op = "connect" /\ connected /\ result = "Ok"
    /\ workers = 1 /\ events # <<>> /\ peer_count = 1

\* C14: a connect that fails at any of its steps returns an error with a message
\* and leaves the transport disconnected, without a send socket and without a
\* new worker.
C14_ConnectFailure ==
    [][(op' = "connect" /\ result' # "Ok") =>
          /\ result' \in {ConnectError(step) : step \in ConnectSteps}
          /\ ~connected' /\ sender' = "None" /\ workers' = workers
          /\ UNCHANGED netVars]_vars

\* connect has failed to bind the receive port, which the worker of an earlier
\* connection still holds.
C14_Witness ==
    /\ op = "connect" /\ result = "Err: Failed to bind receiver"
    /\ ~connected /\ sender = "None" /\ workers = 1

\* C15: when disconnect returns, no send socket is held, the peer counter is 0
\* and the transport is disconnected.
C15_DisconnectResets ==
    op = "disconnect" => (~connected /\ sender = "None" /\ peer_count = 0)

\* C16: a datagram that does not decode is dropped: the inbox, the peer counter
\* and the application are as before, and the worker is still there to receive.
C16_DecodeFailure ==
    [][op' = "undecodable" =>
          /\ events' = events /\ peer_count' = peer_count
          /\ UNCHANGED <<netVars, appVars>>
          /\ workers' > 0]_vars

\* The worker of a connected transport has just dropped an undecodable datagram,
\* the inbox still empty and no peer marked.
C16_Witness ==
    /\ op = "undecodable" /\ connected /\ workers = 1
    /\ events = <<>> /\ peer_count = 0

\* C17: an undo that finds an action pops it, pushes that same action (not its
\* inverse) onto redo_stack and leaves the selection empty; an undo on an empty
\* undo_stack, and a redo on an empty redo_stack, leave the Store, both stacks
\* and the selection as they were.
C17_UndoFrame ==
    [][/\ KeyUndo =>
            IF undo_stack = <<>>
            THEN UNCHANGED <<lines, undo_stack, redo_stack, selected_indices>>
            ELSE /\ undo_stack' = Front(undo_stack)
                 /\ redo_stack' = Append(redo_stack, Last(undo_stack))
                 /\ selected_indices' = <<>>
       /\ (KeyRedo /\ redo_stack = <<>>) =>
            UNCHANGED <<lines, undo_stack, redo_stack, selected_indices>>]_vars

\* A paste has been undone: the Create of the pasted strokes is on top of
\* redo_stack, the strokes are gone from the Store and nothing is selected.
C17_Witness ==
    /\ ~crashed /\ op = "update"
    /\ clipboard # <<>>
    /\ redo_stack # <<>> /\ Last(redo_stack).type = "Create"
    /\ Last(redo_stack).lines =
          [k \in DOMAIN clipboard |-> SerializableLineFrom(clipboard[k])]
    /\ Len(lines) = 1
    /\ selected_indices = <<>>

\* C18: every selected index is an index into the Store.
C18_SelectionInRange ==
    \A k \in DOMAIN selected_indices : selected_indices[k] < Len(lines)

\* C19: the worker, once started, never terminates, and after WouldBlock,
\* another I/O error or an undecodable datagram it receives again: a decodable
\* datagram that arrives later is received and enqueued (or the inbox of the
\* model is at its bound).
C19_WorkerRetries ==
    /\ [][workers' >= workers]_vars
    /\ [][op' = "worker_receive" => events' = Append(events, Last(events'))]_vars
    /\ (op \in {"undecodable", "WouldBlock", "error"})
          ~> (op = "worker_receive" \/ Len(events) = MaxInbox)

\* Right after an I/O error of the worker, a decodable datagram has been received
\* and is the one message in the inbox.
C19_Witness ==
    /\ prev_op = "error" /\ op = "worker_receive"
    /\ workers = 1 /\ Len(events) = 1

\* C20: once the worker of a connected transport has received a decodable
\* message, at least one peer is marked present; the counter only holds 0 or 1.
C20_PeerPresence ==
    /\ peer_count \in {0, 1}
    /\ (op = "worker_receive" /\ connected) => peer_count >= 1

\* C21: a stroke converted to its wire form and back has the same colour
\* channels, points and width; the wire colour is alpha << 24 | red << 16 |
\* green << 8 | blue, and unpacking it returns the channels that were packed.
C21_CodecRoundTrip ==
    /\ op = "decode" => ret = arg.v
    /\ op = "pack" => U32Halves(ret) = <<arg.v[4] * 256 + arg.v[1],
                                          arg.v[2] * 256 + arg.v[3]>>
    /\ op = "unpack" => ret = arg.v

\* A stroke of colour (255, 0, 0, 128) with points has been encoded and decoded.
C21_Witness ==
    /\ op = "decode"
    /\ to_srgba_unmultiplied(ret.color) = <<255, 0, 0, 128>>
    /\ Len(ret.points) = 2

\* The square of the distance between two points.
DistSq(p, q) == (p[1] - q[1]) * (p[1] - q[1]) + (p[2] - q[2]) * (p[2] - q[2])

\* C22: dist_to_segment(p, a, b) is the distance from p to the closest point of
\* the segment ab: the perpendicular distance when the projection of p falls
\* inside the segment, the distance to the nearer endpoint when it falls beyond
\* one, the distance to a when a = b; no point of the segment is closer.
C22_DistToSegment ==
    op = "dist_to_segment" =>
        LET p == arg.p
            a == arg.a
            b == arg.b
            l2 == DistSq(a, b)
            dot == (p[1] - a[1]) * (b[1] - a[1]) + (p[2] - a[2]) * (b[2] - a[2])
            cross == (b[1] - a[1]) * (p[2] - a[2]) - (b[2] - a[2]) * (p[1] - a[1])
        IN /\ ret.den > 0 /\ ret.num >= 0
           /\ l2 = 0 => ret.num = DistSq(p, a) * ret.den
           /\ (l2 > 0 /\ 0 <= dot /\ dot <= l2) => ret.num * l2 = cross * cross * ret.den
           /\ (l2 > 0 /\ dot < 0) => ret.num = DistSq(p, a) * ret.den
           /\ (l2 > 0 /\ dot > l2) => ret.num = DistSq(p, b) * ret.den
           /\ \A k \in 0..Samples :
                  ret.num * Samples * Samples
                     <= ret.den * DistSq(<<Samples * p[1], Samples * p[2]>>,
                                         <<Samples * a[1] + k * (b[1] - a[1]),
                                           Samples * a[2] + k * (b[2] - a[2])>>)
           /\ (p = <<5, 3>> /\ a = <<0, 0>> /\ b = <<10, 0>>) => ret.num = 9 * ret.den
           /\ (p = <<15, 0>> /\ a = <<0, 0>> /\ b = <<10, 0>>) => ret.num = 25 * ret.den

\* The distance of (15, 0) to the segment ((0, 0), (10, 0)) has been computed
\* and is 5.
C22_Witness ==
    /\ op = "dist_to_segment"
    /\ arg.p = <<15, 0>> /\ arg.a = <<0, 0>> /\ arg.b = <<10, 0>>
    /\ ret.num = 25 /\ ret.den = 1

\* C23: applying Delete(indices), the indices distinct, in range and in any
\* order, removes exactly the strokes that were at those positions: the Store
\* afterwards is the strokes at the other positions, unchanged and in their
\* order, and it is shorter by the number of indices.
C23_DeleteExact ==
    (op = "execute" /\ ~crashed /\ Last(undo_stack).type = "Delete") =>
        LET pre == Last(gU).pre
            ix == Last(undo_stack).indices
            keep == Ascending({i \in 0..(Len(pre) - 1) : ~Contains(ix, i)})
        IN /\ lines = [k \in DOMAIN keep |-> At(pre, keep[k])]
           /\ Len(lines) = Len(pre) - Len(ix)

\* Positions 1 and MaxLines - 1, listed in ascending order, have been deleted
\* from a full Store whose strokes at 0 and 2 differ.
C23_Witness ==
    /\ op = "execute" /\ ~crashed
    /\ Last(undo_stack).type = "Delete"
    /\ Last(undo_stack).indices = <<1, MaxLines - 1>>
    /\ Len(Last(gU).pre) = MaxLines
    /\ Len(lines) = MaxLines - 2
    /\ At(lines, 0) # At(lines, 1)

\* The Store obtained by applying the actions of a history, oldest first, to the
\* empty Store.
RECURSIVE Replay(_)
Replay(stack) ==
    IF stack = <<>> THEN <<>>
    ELSE apply_action(Replay(Front(stack)), Last(stack)).lines

\* C24: whenever no drag is in progress, the Store is what the actions of
\* undo_stack, applied oldest first to the empty Store, produce.
C24_HistoryConsistent ==
    (~crashed /\ ~is_dragging_items) => lines = Replay(undo_stack)

\* C25: between two calls of the transport, it is connected exactly when it
\* holds a send socket; a broadcast_message on a connected transport attempts
\* the send, and returns Ok only when the datagram was sent.
C25_ConnectedIffSender ==
    /\ pc = "idle" => (connected <=> sender = "Some")
    /\ (op = "broadcast_message" /\ connected) =>
          /\ result \in {"Ok", "Err: Failed to send"}
          /\ result = "Ok" <=> n_send = 1

\* Right after a connect, a broadcast on the connected transport has sent its
\* datagram and returned Ok.
C25_Witness ==
    /\ op = "broadcast_message" /\ prev_op = "connect"
    /\ connected /\ sender = "Some"
    /\ result = "Ok" /\ n_send = 1

\* C26: while the transport is disconnected the peer counter is 0 and the
\* worker enqueues nothing: no state of a disconnected transport comes right
\* after a worker step that has enqueued a message.
C26_DisconnectedQuiet ==
    ~connected => (peer_count = 0 /\ op # "worker_receive")

\* C27: whatever connect and disconnect calls are made, at most one receive
\* worker exists, and a datagram it receives adds exactly one event to the inbox.
C27_OneWorker ==
    [][/\ workers' <= 1
       /\ op' = "worker_receive" => Len(events') = Len(events) + 1]_vars

\* After a connect, a disconnect and a connect that failed on the receive port,
\* the one worker has enqueued a datagram.
C27_Witness ==
    /\ op = "worker_receive" /\ prev_op = "connect"
    /\ result = "Err: Failed to bind receiver"
    /\ ~connected /\ workers = 1 /\ Len(events) = 1

\* C28: the events poll_events has returned so far, followed by the events still
\* in the inbox, are the events the worker has enqueued, each once and in
\* enqueue order; a poll leaves the inbox empty.
C28_ExactlyOnce ==
    /\ returned \o events = enqueued
    /\ op = "poll_events" => events = <<>>

\* Two polls have returned three events between them, two of them different,
\* and the second poll came right after an enqueue.
C28_Witness ==
    /\ op = "poll_events" /\ prev_op = "worker_receive"
    /\ Len(returned) = 3 /\ returned[1] # returned[2]
    /\ events = <<>>

\* C29: a paste with a clipboard that is not empty pushes one Create entry,
\* appends to the Store one copy of each clipboard stroke, in order, moved by
\* (20, 20), and selects exactly the appended positions; an undo right after it
\* removes exactly those strokes; a paste with an empty clipboard changes nothing.
C29_Paste ==
    [][/\ op' = "paste_empty" =>
             UNCHANGED <<lines, undo_stack, redo_stack, selected_indices, clipboard>>
       /\ op' = "paste" =>
             LET copies == [k \in DOMAIN clipboard |-> Translate(clipboard[k], 20, 20)]
                 entry == Last(undo_stack')
             IN /\ ~crashed'
                /\ lines' = lines \o copies
                /\ undo_stack' = Append(undo_stack, entry)
                /\ entry.type = "Create"
                /\ [k \in DOMAIN entry.lines |-> LineFrom(entry.lines[k])] = copies
                /\ selected_indices' = RangeSeq(Len(lines), Len(lines) + Len(clipboard))
       /\ (op = "paste" /\ op' = "undo") =>
             /\ ~crashed'
             /\ lines' = SubSeq(lines, 1, Len(lines) - Len(Last(undo_stack).lines))
             /\ undo_stack' = Front(undo_stack)]_vars

\* Two different strokes, copied together, have been pasted behind them and the
\* paste has been undone.
C29_Witness ==
    /\ op = "undo" /\ prev_op = "paste" /\ ~crashed
    /\ Len(clipboard) = 2 /\ clipboard[1] # clipboard[2]
    /\ Len(lines) = 2
    /\ redo_stack # <<>> /\ Len(Last(redo_stack).lines) = 2

====
